---- MODULE Spec2Model ----
(***************************************************************************)
(* Model of the CFNgin diff engine (actions/diff.py), the hook runner      *)
(* (hooks/utils.py) and blueprint variable resolution (blueprints/base.py) *)
(* of runway.                                                              *)
(*                                                                         *)
(* Python values are records [ty, s]: ty is the runtime type and s the     *)
(* text str() gives, so that ==, str() and isinstance() can be told apart. *)
(***************************************************************************)
EXTENDS Integers, Sequences, FiniteSets, TLC

VARIABLES old_dict, new_dict, diff_pc, diff_changes, diff_output, diff_result,
          diff_text,
          hooks, hooks_none, hook_data, hooks_pc, hook_i, hook_log,
          var_def, provided_variable, rv_pc, rv_result,
          defined_variables, resolved_variables, bp_resolve_state, bp_call,
          graph, stacks, cancel, node_status, action_log, set_outputs_calls

diff_vars == <<old_dict, new_dict, diff_pc, diff_changes, diff_output, diff_result,
              diff_text>>
hook_vars == <<hooks, hooks_none, hook_data, hooks_pc, hook_i, hook_log>>
rv_vars == <<var_def, provided_variable, rv_pc, rv_result>>
bp_vars == <<defined_variables, resolved_variables, bp_resolve_state, bp_call>>
walk_vars == <<graph, stacks, cancel, node_status, action_log, set_outputs_calls>>

-----------------------------------------------------------------------------
(* Bounds *)

MaxKey == 2
MaxHooks == 3
MaxVars == 2
MaxNodes == 3

-----------------------------------------------------------------------------
(* Python values *)

PyVal(ty, s) == [ty |-> ty, s |-> s]

None == PyVal("NoneType", "None")
Int1 == PyVal("int", "1")
Int2 == PyVal("int", "2")
Str1 == PyVal("str", "1")
StrA == PyVal("str", "a")
StrC == PyVal("str", "c")
True == PyVal("bool", "True")
StrB == PyVal("str", "b")
Float15 == PyVal("float", "1.5")
ListA == PyVal("list", "['a']")

\* str(v): the string whose text is the value's string form
PyStr(v) == PyVal("str", v.s)

\* v1 == v2: same value, or numerically equal int/bool (True == 1)
PyEq(a, b) == \/ a = b
              \/ {a, b} = {Int1, True}

\* isinstance(v, t) for the builtin types: bool is a subclass of int
IsInstance(v, t) == \/ v.ty = t
                    \/ v.ty = "bool" /\ t = "int"

-----------------------------------------------------------------------------
(* actions/diff.py *)

ADDED == "ADDED"
REMOVED == "REMOVED"
MODIFIED == "MODIFIED"
UNMODIFIED == "UNMODIFIED"

Keys == 1..MaxKey
DiffValues == {None, Int1, Int2, Str1, True}
Dicts == UNION {[S -> DiffValues] : S \in SUBSET Keys}

DictValue(key, old_value, new_value) ==
    [key |-> key, old_value |-> old_value, new_value |-> new_value]

status(dv) ==
    IF PyEq(dv.old_value, dv.new_value) THEN UNMODIFIED
    ELSE IF dv.old_value = None THEN ADDED
    ELSE IF dv.new_value = None THEN REMOVED
    ELSE MODIFIED

\* formatter % (prefix, key, value): the line "<prefix><key> = <str(value)>"
formatter(prefix, key, value) == <<prefix, key, " = ", PyStr(value).s>>

\* changes() with the two lines of a MODIFIED entry in the other order
changes_new_before_old(dv) ==
    IF status(dv) = UNMODIFIED THEN <<formatter(" ", dv.key, dv.old_value)>>
    ELSE IF status(dv) = ADDED THEN <<formatter("+", dv.key, dv.new_value)>>
    ELSE IF status(dv) = REMOVED THEN <<formatter("-", dv.key, dv.old_value)>>
    ELSE <<formatter("+", dv.key, dv.new_value), formatter("-", dv.key, dv.old_value)>>

\* DictValue.changes()
changes(dv) ==
    IF status(dv) = UNMODIFIED THEN <<formatter(" ", dv.key, dv.old_value)>>
    ELSE IF status(dv) = ADDED THEN <<formatter("+", dv.key, dv.new_value)>>
    ELSE IF status(dv) = REMOVED THEN <<formatter("-", dv.key, dv.old_value)>>
    ELSE <<formatter("-", dv.key, dv.old_value), formatter("+", dv.key, dv.new_value)>>

\* the orders in which a for loop may visit a set
IterOrders(S) ==
    {f \in [1..Cardinality(S) -> S] : \A i, j \in 1..Cardinality(S) : i # j => f[i] # f[j]}

RECURSIVE InsertByKey(_, _)
InsertByKey(dv, s) ==
    IF s = <<>> THEN <<dv>>
    ELSE IF dv.key <= Head(s).key THEN <<dv>> \o s
    ELSE <<Head(s)>> \o InsertByKey(dv, Tail(s))

\* a sort that leaves the list in insertion order
SortByKey_unsorted(s) == s

\* output.sort(key=attrgetter("key"))
RECURSIVE SortByKey(_)
SortByKey(s) ==
    IF s = <<>> THEN <<>> ELSE InsertByKey(Head(s), SortByKey(Tail(s)))

\* diff_dictionaries(old, new); a, r, c are the orders in which the three
\* for loops visit added_set, removed_set and common_set
diff_dictionaries(old, new, a, r, c) ==
    LET old_set == DOMAIN old
        new_set == DOMAIN new
        added_set == new_set \ old_set
        removed_set == old_set \ new_set
        common_set == old_set \cap new_set
        added == [i \in 1..Len(a) |-> DictValue(a[i], None, new[a[i]])]
        removed == [i \in 1..Len(r) |-> DictValue(r[i], old[r[i]], None)]
        common == [i \in 1..Len(c) |-> DictValue(c[i], old[c[i]], new[c[i]])]
        n_changes == Cardinality(added_set) + Cardinality(removed_set)
                     + Cardinality({k \in common_set : PyStr(old[k]) # PyStr(new[k])})
    IN  [changes |-> n_changes, output |-> SortByKey(added \o removed \o common)]

\* [line for v in parameter_diff for line in v.changes()]
RECURSIVE ChangeLines(_)
ChangeLines(parameter_diff) ==
    IF parameter_diff = <<>> THEN <<>>
    ELSE changes(Head(parameter_diff)) \o ChangeLines(Tail(parameter_diff))

\* the lines of the header of format_params_diff
ParamsHeader == <<<<"--- Old Parameters">>, <<"+++ New Parameters">>, <<"******************">>>>

\* '\n'.join(lines), as the lines of the text it gives: no line at all
\* joins to the empty string, which is one empty line
JoinLines(lines) == IF lines = <<>> THEN <<<<"">>>> ELSE lines

\* format_params_diff(parameter_diff), as the lines of the returned text,
\* each ended by a newline
format_params_diff(parameter_diff) ==
    ParamsHeader \o JoinLines(ChangeLines(parameter_diff))

\* diff_parameters, given the result of diff_dictionaries
diff_parameters(res) == IF res.changes = 0 THEN <<>> ELSE res.output

DiffInit ==
    /\ old_dict \in Dicts
    /\ new_dict \in Dicts
    /\ diff_pc = "start"
    /\ diff_changes = 0
    /\ diff_output = <<>>
    /\ diff_result = <<>>
    /\ diff_text = <<>>

DiffIdle ==
    /\ old_dict = <<>>
    /\ new_dict = <<>>
    /\ diff_pc = "idle"
    /\ diff_changes = 0
    /\ diff_output = <<>>
    /\ diff_result = <<>>
    /\ diff_text = <<>>

DiffDictionaries ==
    /\ diff_pc = "start"
    /\ \E a \in IterOrders(DOMAIN new_dict \ DOMAIN old_dict),
          r \in IterOrders(DOMAIN old_dict \ DOMAIN new_dict),
          c \in IterOrders(DOMAIN old_dict \cap DOMAIN new_dict) :
          LET res == diff_dictionaries(old_dict, new_dict, a, r, c)
          IN  /\ diff_changes' = res.changes
              /\ diff_output' = res.output
    /\ diff_pc' = "done"
    /\ UNCHANGED <<old_dict, new_dict, diff_result, diff_text>>

\* diff_parameters(old_params, new_params)
DiffParameters ==
    /\ diff_pc = "start"
    /\ \E a \in IterOrders(DOMAIN new_dict \ DOMAIN old_dict),
          r \in IterOrders(DOMAIN old_dict \ DOMAIN new_dict),
          c \in IterOrders(DOMAIN old_dict \cap DOMAIN new_dict) :
          LET res == diff_dictionaries(old_dict, new_dict, a, r, c)
          IN  /\ diff_changes' = res.changes
              /\ diff_output' = res.output
              /\ diff_result' = diff_parameters(res)
    /\ diff_pc' = "returned"
    /\ UNCHANGED <<old_dict, new_dict, diff_text>>

\* the list handed to format_params_diff: the output of diff_dictionaries
\* or the list diff_parameters returned
parameter_diff == IF diff_pc = "done" THEN diff_output ELSE diff_result

\* format_params_diff(parameter_diff)
FormatParamsDiff ==
    /\ diff_pc \in {"done", "returned"}
    /\ diff_text' = format_params_diff(parameter_diff)
    /\ diff_pc' = IF diff_pc = "done" THEN "formatted output" ELSE "formatted result"
    /\ UNCHANGED <<old_dict, new_dict, diff_changes, diff_output, diff_result>>

-----------------------------------------------------------------------------
(* hooks/utils.py: handle_hooks                                            *)
(* Line 111 of utils.py (Docker.try_bind_path) is not valid Python, so the *)
(* module does not import as it stands; handle_hooks is modelled as        *)
(* written.                                                                *)

EmptyMap == PyVal("dict", "{}")
Map1 == PyVal("dict", "{'a': 1}")
Map2 == PyVal("dict", "{'b': 2}")

\* bool(v)
Truthy(v) == v \notin {None, EmptyMap}

\* isinstance(v, collections.Mapping)
IsMapping(v) == v.ty = "dict"

\* what a hook's method may return
HookResults == {None, EmptyMap, Map1, Map2, True}

\* what load_object_from_string(hook.path) may do: return the method, raise
\* AttributeError or ImportError, or raise an exception of another class
\* (importing the hook's module runs its code)
LoadOutcomes == {"ok", "ImportError", "ValueError"}

\* what method(context=..., provider=..., **kwargs) may raise: an Exception,
\* or a BaseException that is not an Exception (SystemExit, KeyboardInterrupt)
Raises(exc) == PyVal("raised", exc)
CallErrors == {Raises("Exception"), Raises("SystemExit")}
CallOutcomes == HookResults \cup CallErrors

\* what running an enabled hook may do: the load fails and nothing is called,
\* or the load succeeds and the call returns or raises
HookBehaviours ==
    {[load |-> l, call |-> None] : l \in LoadOutcomes \ {"ok"}}
    \cup {[load |-> "ok", call |-> c] : c \in CallOutcomes}

NoDataKey == ""
DataKeys == {"k1", "k2"}

\* a config Hook: data_key, required, enabled (path and args do not decide
\* anything in handle_hooks)
HookConfigs == [data_key : DataKeys \cup {NoDataKey}, required : BOOLEAN, enabled : BOOLEAN]

HookLists == UNION {[1..n -> HookConfigs] : n \in 0..MaxHooks}

\* context.set_hook_data(key, data)
set_hook_data(data, key, result) == (key :> result) @@ data

Outcome(next, loaded, called, store) ==
    [next |-> next, loaded |-> loaded, called |-> called, store |-> store]

\* load_object_from_string raised: except (AttributeError, ImportError)
\* logs and re-raises for a required hook; any other class is not caught
load_failed(hook, load) ==
    IF load = "ImportError"
    THEN (IF hook.required THEN Outcome("raise", TRUE, FALSE, FALSE)
          ELSE Outcome("continue", TRUE, FALSE, FALSE))
    ELSE Outcome("raise", TRUE, FALSE, FALSE)

\* the method raised: except Exception logs and re-raises for a required
\* hook; a BaseException that is not an Exception is not caught
call_raised(hook, call) ==
    IF call = Raises("Exception")
    THEN (IF hook.required THEN Outcome("raise", TRUE, TRUE, FALSE)
          ELSE Outcome("continue", TRUE, TRUE, FALSE))
    ELSE Outcome("raise", TRUE, TRUE, FALSE)

\* a falsy result that only logs a warning, whatever the required flag
falsy_result_warns(hook) == Outcome("continue", TRUE, TRUE, FALSE)

\* if not result: sys.exit(1) for a required hook, a warning otherwise
falsy_result(hook) ==
    IF hook.required THEN Outcome("exit", TRUE, TRUE, FALSE)
    ELSE Outcome("continue", TRUE, TRUE, FALSE)

\* a truthy result that is never added to the context
truthy_result_ignored(hook, result) == Outcome("continue", TRUE, TRUE, FALSE)

\* a truthy result stored without the isinstance check
truthy_result_stores_any(hook, result) ==
    IF hook.data_key # NoDataKey THEN Outcome("continue", TRUE, TRUE, TRUE)
    ELSE Outcome("continue", TRUE, TRUE, FALSE)

\* else: a mapping is stored when the hook has a data_key
truthy_result(hook, result) ==
    IF IsMapping(result)
    THEN (IF hook.data_key # NoDataKey THEN Outcome("continue", TRUE, TRUE, TRUE)
          ELSE Outcome("continue", TRUE, TRUE, FALSE))
    ELSE Outcome("continue", TRUE, TRUE, FALSE)

\* the body of the for loop without the check of hook.enabled
hook_iteration_ignores_enabled(hook, load, call) ==
    IF load # "ok" THEN load_failed(hook, load)
    ELSE IF call \in CallErrors THEN call_raised(hook, call)
    ELSE IF ~Truthy(call) THEN falsy_result(hook)
    ELSE truthy_result(hook, call)

\* the body of the for loop for one hook: load is what loading the hook's
\* method does, call what calling it does
hook_iteration(hook, load, call) ==
    IF ~hook.enabled THEN Outcome("continue", FALSE, FALSE, FALSE)
    ELSE IF load # "ok" THEN load_failed(hook, load)
    ELSE IF call \in CallErrors THEN call_raised(hook, call)
    ELSE IF ~Truthy(call) THEN falsy_result(hook)
    ELSE truthy_result(hook, call)

\* hooks is a list of Hook, or None (hooks_none) when the stage has no hooks
HooksInit ==
    /\ hooks \in HookLists
    /\ hooks_none \in {b \in BOOLEAN : b => hooks = <<>>}
    /\ hook_data \in {<<>>, ("k1" :> Map2)}
    /\ hooks_pc = "start"
    /\ hook_i = 1
    /\ hook_log = <<>>

HooksIdle ==
    /\ hooks = <<>>
    /\ hooks_none = FALSE
    /\ hook_data = <<>>
    /\ hooks_pc = "idle"
    /\ hook_i = 1
    /\ hook_log = <<>>

\* handle_hooks up to the for loop over the hooks
HandleHooksStart ==
    /\ hooks_pc = "start"
    /\ hooks_pc' = IF hooks_none \/ hooks = <<>> THEN "returned" ELSE "loop"
    /\ UNCHANGED <<hooks, hooks_none, hook_data, hook_i, hook_log>>

\* one iteration of the for loop; the function returns after the last one
HandleHook ==
    /\ hooks_pc = "loop"
    /\ \E b \in IF hooks[hook_i].enabled THEN HookBehaviours
                                            ELSE {[load |-> "ok", call |-> None]} :
          LET hook == hooks[hook_i]
              load == b.load
              call == b.call
              out == hook_iteration(hook, load, call)
              entry == [idx |-> hook_i, load |-> load, call |-> call]
          IN  /\ hook_log' = IF out.loaded THEN Append(hook_log, entry) ELSE hook_log
              /\ hook_data' = IF out.store THEN set_hook_data(hook_data, hook.data_key, call)
                                            ELSE hook_data
              /\ hooks_pc' = CASE out.next = "raise" -> "raised"
                                [] out.next = "exit" -> "exit"
                                [] OTHER -> IF hook_i = Len(hooks) THEN "returned" ELSE "loop"
              /\ hook_i' = IF out.next = "continue" THEN hook_i + 1 ELSE hook_i
    /\ UNCHANGED <<hooks, hooks_none>>

-----------------------------------------------------------------------------
(* blueprints/base.py: resolve_variable *)

\* a key that is not in the variable definition
Missing == PyVal("missing", "")

\* declared types: CFNType and TroposphereType instances, and plain types
PlainTypes == {"int", "bool", "str"}
VarTypes == {"CFNType", "TroposphereType"} \cup PlainTypes
NoType == "missing"

RVValues == {None, Int1, True, StrA, StrC, Float15, ListA}

\* validators: none declared (lambda v: v), a function that returns its
\* argument, a function that raises, a function that returns str(v), and a
\* callable without __name__ (a functools.partial, an object with __call__)
\* that raises
Validators == {"<lambda>", "accept", "reject", "to_str", "nameless_reject"}

\* allowed_values: none (or empty), ["a", "b"], [1]
AllowedValues == {{}, {StrA, StrB}, {Int1}}

VarDefs == [type : VarTypes \cup {NoType}, default : RVValues \cup {Missing},
            validator : Validators, allowed_values : AllowedValues]

\* the provided Variable: None, unresolved, or resolved with a value
NoVariable == [given |-> FALSE, resolved |-> FALSE, value |-> None]
ProvidedVariables ==
    {NoVariable, [given |-> TRUE, resolved |-> FALSE, value |-> None]}
    \cup {[given |-> TRUE, resolved |-> TRUE, value |-> v] : v \in RVValues}

Return(value) ==
    [kind |-> "return", exc |-> "", value |-> value, validator |-> "", cause |-> "",
     expected |-> "", actual |-> ""]

Raise(exc) ==
    [kind |-> "raise", exc |-> exc, value |-> None, validator |-> "", cause |-> "",
     expected |-> "", actual |-> ""]

\* ValidatorError(var_name, validator, value, exc)
ValidatorError(validator, value, exc) ==
    [Raise("ValidatorError") EXCEPT !.validator = validator, !.value = value, !.cause = exc]

\* CFNParameter(name, value): a str or list is kept, a bool becomes its
\* lower-case string, an int its string; any other value is a ValueError
CFNParameter(value) ==
    IF IsInstance(value, "str") THEN Return(PyVal("CFNParameter", value.s))
    ELSE IF IsInstance(value, "bool")
        THEN Return(PyVal("CFNParameter", IF value = True THEN "true" ELSE "false"))
    ELSE IF IsInstance(value, "list") THEN Return(PyVal("CFNParameter", value.s))
    ELSE IF IsInstance(value, "int") THEN Return(PyVal("CFNParameter", value.s))
    ELSE Raise("ValueError")

\* the else branch with the runtime type compared for equality
check_plain_type_exact(var_type, value) ==
    IF value.ty # var_type
    THEN [Raise("ValueError") EXCEPT !.expected = var_type, !.actual = value.ty]
    ELSE Return(value)

\* else: if not isinstance(value, var_type): raise ValueError(...)
check_plain_type(var_type, value) ==
    IF ~IsInstance(value, var_type)
    THEN [Raise("ValueError") EXCEPT !.expected = var_type, !.actual = value.ty]
    ELSE Return(value)

\* validate_variable_type(var_name, var_type, value); create_ok says whether
\* var_type.create(value) returns or raises
validate_variable_type(var_type, value, create_ok) ==
    IF var_type = "CFNType" THEN CFNParameter(value)
    ELSE IF var_type = "TroposphereType" THEN
        IF create_ok THEN Return(PyVal("resource", value.s))
        ELSE ValidatorError("resource_name.create", value, "Exception")
    ELSE check_plain_type(var_type, value)

\* value in allowed_values
PyIn(value, allowed_values) == \E a \in allowed_values : PyEq(a, value)

\* a check of allowed_values that accepts every value
validate_allowed_values_unchecked(allowed_values, value) == TRUE

validate_allowed_values(allowed_values, value) ==
    IF allowed_values = {} \/ value.ty = "CFNParameter" THEN TRUE
    ELSE PyIn(value, allowed_values)

\* the value looked up with a missing default read as None
provided_or_default_none(vdef, provided) ==
    IF provided.given THEN
        IF ~provided.resolved THEN Raise("UnresolvedVariable")
        ELSE Return(provided.value)
    ELSE IF vdef.default = Missing THEN Return(None)
    ELSE Return(vdef.default)

\* if provided_variable: ... else: value = var_def["default"]
provided_or_default(vdef, provided) ==
    IF provided.given THEN
        IF ~provided.resolved THEN Raise("UnresolvedVariable")
        ELSE Return(provided.value)
    ELSE IF vdef.default = Missing THEN Raise("MissingVariable")
    ELSE Return(vdef.default)

\* value = validator(value); except Exception as exc: raise
\* ValidatorError(var_name, validator.__name__, value, exc), where reading
\* __name__ of a callable that has none raises AttributeError
apply_validator(validator, value) ==
    CASE validator = "reject" -> ValidatorError(validator, value, "Exception")
      [] validator = "nameless_reject" -> Raise("AttributeError")
      [] validator = "to_str" -> Return(PyStr(value))
      [] OTHER -> Return(value)

resolve_variable(vdef, provided, create_ok) ==
    IF vdef.type = NoType THEN Raise("VariableTypeRequired")
    ELSE LET looked == provided_or_default(vdef, provided)
         IN  IF looked.kind = "raise" THEN looked
             ELSE LET validated == apply_validator(vdef.validator, looked.value)
                  IN  IF validated.kind = "raise" THEN validated
                      ELSE LET typed == validate_variable_type(vdef.type, validated.value, create_ok)
                           IN  IF typed.kind = "raise" THEN typed
                               ELSE IF ~validate_allowed_values(vdef.allowed_values, typed.value)
                                    THEN Raise("ValueError")
                                    ELSE Return(typed.value)

ResolveInit ==
    /\ var_def \in VarDefs
    /\ provided_variable \in ProvidedVariables
    /\ rv_pc = "start"
    /\ rv_result = Return(None)

ResolveIdle ==
    /\ var_def = [type |-> NoType, default |-> Missing, validator |-> "<lambda>",
                  allowed_values |-> {}]
    /\ provided_variable = NoVariable
    /\ rv_pc = "idle"
    /\ rv_result = Return(None)

ResolveVariable ==
    /\ rv_pc = "start"
    /\ \E create_ok \in BOOLEAN :
          rv_result' = resolve_variable(var_def, provided_variable, create_ok)
    /\ rv_pc' = "done"
    /\ UNCHANGED <<var_def, provided_variable>>

-----------------------------------------------------------------------------
(* blueprints/base.py: Blueprint *)

VarNames == 1..MaxVars

\* the variable definitions a blueprint declares in VARIABLES
BlueprintVarDefs ==
    [type : {"CFNType", "str"}, default : {Missing, StrA},
     validator : {"<lambda>"}, allowed_values : {{}}]

BlueprintVariables == UNION {[1..n -> BlueprintVarDefs] : n \in 0..MaxVars}

\* what the caller provides for one variable name
BlueprintProvided ==
    {NoVariable, [given |-> TRUE, resolved |-> FALSE, value |-> None],
     [given |-> TRUE, resolved |-> TRUE, value |-> StrC]}

\* self.resolved_variables: None, or a dict
Unresolved == [none |-> TRUE, map |-> <<>>]
Resolved(map) == [none |-> FALSE, map |-> map]

\* the keys of a variable definition dict
KeysOf(attrs) ==
    {"type"} \cup (IF attrs.default # Missing THEN {"default"} ELSE {})

\* get_parameter_definitions(): the names of the variables whose type is a
\* CFNType; each comes with a copy of its definition
get_parameter_definitions(defs) ==
    {name \in DOMAIN defs : defs[name].type = "CFNType"}

\* get_required_parameter_definitions(): if "Default" not in attrs
get_required_parameter_definitions(defs) ==
    {name \in get_parameter_definitions(defs) : "Default" \notin KeysOf(defs[name])}

\* get_variables()
get_variables(resolved) ==
    IF resolved.none THEN [kind |-> "raise", exc |-> "UnresolvedVariables", map |-> <<>>]
    ELSE [kind |-> "return", exc |-> "", map |-> resolved.map]

\* value.to_parameter_value() of a CFNParameter
to_parameter_value(value) == PyVal("str", value.s)

\* the variables that have to_parameter_value, as parameter values
ParameterValues(map) ==
    LET names == {name \in DOMAIN map : map[name].ty = "CFNParameter"}
    IN  [name \in names |-> to_parameter_value(map[name])]

\* get_parameter_values()
get_parameter_values(resolved) ==
    LET variables == get_variables(resolved)
    IN  IF variables.kind = "raise" THEN variables
        ELSE [variables EXCEPT !.map = ParameterValues(variables.map)]

\* get_cfn_parameters()
get_cfn_parameters(resolved) ==
    LET variables == get_variables(resolved)
    IN  IF variables.kind = "raise" THEN variables
        ELSE [variables EXCEPT !.map = ParameterValues(variables.map)]

\* the for loop of resolve_variables over defined_variables.items() in the
\* given order, starting from resolved_variables = acc; a raise of
\* resolve_variable leaves the loop
RECURSIVE resolve_loop(_, _, _, _)
resolve_loop(defs, provided, order, acc) ==
    IF order = <<>> THEN [state |-> "complete", map |-> acc]
    ELSE LET var_name == Head(order)
             value == resolve_variable(defs[var_name], provided[var_name], TRUE)
         IN  IF value.kind = "raise" THEN [state |-> "raised", map |-> acc]
             ELSE resolve_loop(defs, provided, Tail(order), (var_name :> value.value) @@ acc)

\* resolve_variables(provided_variables): self.resolved_variables = {} and
\* then the loop
resolve_variables(defs, provided, order) == resolve_loop(defs, provided, order, <<>>)

NoCall == [op |-> "none", kind |-> "return", exc |-> "", map |-> <<>>, names |-> {},
           state |-> "never"]

\* Blueprint.__init__
BlueprintInit ==
    /\ defined_variables \in BlueprintVariables
    /\ resolved_variables = Unresolved
    /\ bp_resolve_state = "never"
    /\ bp_call = NoCall

BlueprintIdle ==
    /\ defined_variables = <<>>
    /\ resolved_variables = Unresolved
    /\ bp_resolve_state = "idle"
    /\ bp_call = NoCall

ResolveVariables ==
    /\ \E provided \in [DOMAIN defined_variables -> BlueprintProvided],
          order \in IterOrders(DOMAIN defined_variables) :
          LET res == resolve_variables(defined_variables, provided, order)
          IN  /\ resolved_variables' = Resolved(res.map)
              /\ bp_resolve_state' = res.state
    /\ UNCHANGED <<defined_variables, bp_call>>

\* a call of one of the getters; the call records the state it was made in
CallRecord(op, res) ==
    [op |-> op, kind |-> res.kind, exc |-> res.exc, map |-> res.map, names |-> {},
     state |-> bp_resolve_state]

GetVariables ==
    /\ bp_call' = CallRecord("get_variables", get_variables(resolved_variables))
    /\ UNCHANGED <<defined_variables, resolved_variables, bp_resolve_state>>

GetParameterValues ==
    /\ bp_call' = CallRecord("get_parameter_values", get_parameter_values(resolved_variables))
    /\ UNCHANGED <<defined_variables, resolved_variables, bp_resolve_state>>

GetCfnParameters ==
    /\ bp_call' = CallRecord("get_cfn_parameters", get_cfn_parameters(resolved_variables))
    /\ UNCHANGED <<defined_variables, resolved_variables, bp_resolve_state>>

GetRequiredParameterDefinitions ==
    /\ bp_call' = [NoCall EXCEPT !.op = "get_required_parameter_definitions",
                                 !.names = get_required_parameter_definitions(defined_variables),
                                 !.state = bp_resolve_state]
    /\ UNCHANGED <<defined_variables, resolved_variables, bp_resolve_state>>

-----------------------------------------------------------------------------
(* actions/diff.py: Action._diff_stack and Action.run; the plan and the
   walker that run executes follow the design document *)

PENDING == "PENDING"
SUBMITTED == "SUBMITTED"
COMPLETE == "COMPLETE"
SKIPPED == "SKIPPED"
FAILED == "FAILED"
NOT_SUBMITTED == "NOT_SUBMITTED"
NOT_UPDATED == "NOT_UPDATED"
INTERRUPTED == "INTERRUPTED"

Terminal == {COMPLETE, FAILED, SKIPPED, NOT_SUBMITTED, NOT_UPDATED, INTERRUPTED}
TerminalSuccess == {COMPLETE, SKIPPED, NOT_SUBMITTED, NOT_UPDATED}

Nodes == 1..MaxNodes

\* acyclic dependency graphs: graph[n] is the set of nodes n depends on
Graphs == {g \in [Nodes -> SUBSET Nodes] : \A n \in Nodes : g[n] \subseteq 1..(n - 1)}

Stacks == [enabled : BOOLEAN, locked : BOOLEAN]

\* what stack.resolve(context, provider) does
ResolveOutcomes == {"ok", "FailedVariableLookup"}

\* what provider.get_stack_changes(...) does
ProviderOutcomes == {"outputs", "StackDidNotChange", "ClientError"}

\* build.should_submit(stack)
should_submit(stack) == stack.enabled

\* build.should_update(stack)
should_update(stack) == ~stack.locked

\* what a call of _diff_stack did: returned a status or raised, and the
\* calls it made on the way
Returned(st) == [kind |-> "return", value |-> st]
Raised(exc) == [kind |-> "raise", value |-> exc]
InFlight == [kind |-> "in flight", value |-> ""]
NotCalled == [kind |-> "not called", value |-> ""]

NoLog ==
    [invoked |-> FALSE, cancelled |-> FALSE, resolved |-> FALSE,
     provider |-> "not called", result |-> NotCalled]

\* _diff_stack up to the provider call
diff_stack_checks_submit_first(cancelled, stack, resolve_outcome) ==
    IF ~should_submit(stack) THEN Returned(NOT_SUBMITTED)
    ELSE IF cancelled THEN Returned(INTERRUPTED)
    ELSE IF ~should_update(stack) THEN Returned(NOT_UPDATED)
    ELSE IF resolve_outcome # "ok" THEN Raised(resolve_outcome)
    ELSE InFlight

diff_stack_start(cancelled, stack, resolve_outcome) ==
    IF cancelled THEN Returned(INTERRUPTED)
    ELSE IF ~should_submit(stack) THEN Returned(NOT_SUBMITTED)
    ELSE IF ~should_update(stack) THEN Returned(NOT_UPDATED)
    ELSE IF resolve_outcome # "ok" THEN Raised(resolve_outcome)
    ELSE InFlight

\* _diff_stack from the return of provider.get_stack_changes
diff_stack_finish_propagates(provider_outcome) ==
    IF provider_outcome = "outputs" THEN Returned(COMPLETE)
    ELSE Raised(provider_outcome)

diff_stack_finish(provider_outcome) ==
    IF provider_outcome \in {"outputs", "StackDidNotChange"} THEN Returned(COMPLETE)
    ELSE Raised(provider_outcome)

\* stack.set_outputs(outputs) is reached only when get_stack_changes returns
calls_set_outputs(provider_outcome) == provider_outcome = "outputs"

\* the status the walker gives a node whose action returned or raised
StepStatus(result) ==
    IF result.kind = "raise" THEN FAILED
    ELSE IF result.kind = "in flight" THEN SUBMITTED
    ELSE result.value

\* the transitive dependencies of node n
RECURSIVE Upstream(_, _)
Upstream(g, n) == g[n] \cup UNION {Upstream(g, d) : d \in g[n]}

\* the transitive dependents of node n
Dependents(g, n) == {m \in Nodes : n \in Upstream(g, m)}

\* all dependencies of n are done, so the walker decides about n
Ready(n) ==
    /\ node_status[n] = PENDING
    /\ \A d \in graph[n] : node_status[d] \in Terminal

FailedUpstream_direct(n) == \E d \in graph[n] : node_status[d] = FAILED

FailedUpstream(n) == \E d \in Upstream(graph, n) : node_status[d] = FAILED

\* every dependency reached a successful terminal state
Released(n) ==
    /\ Ready(n)
    /\ ~FailedUpstream(n)
    /\ \A d \in graph[n] : node_status[d] \in TerminalSuccess

\* Action.run: the plan is generated and handed to the walker
WalkInit ==
    /\ graph \in Graphs
    /\ stacks \in [Nodes -> Stacks]
    /\ cancel = FALSE
    /\ node_status = [n \in Nodes |-> PENDING]
    /\ action_log = [n \in Nodes |-> NoLog]
    /\ set_outputs_calls = [n \in Nodes |-> <<>>]

WalkIdle ==
    /\ graph = <<>>
    /\ stacks = <<>>
    /\ cancel = FALSE
    /\ node_status = <<>>
    /\ action_log = <<>>
    /\ set_outputs_calls = <<>>

\* the cancellation flag is set
Cancel ==
    /\ ~cancel
    /\ cancel' = TRUE
    /\ UNCHANGED <<graph, stacks, node_status, action_log, set_outputs_calls>>

\* a node with a failed upstream is skipped, its action is not invoked
WalkSkip(n) ==
    /\ Ready(n)
    /\ FailedUpstream(n)
    /\ node_status' = [node_status EXCEPT ![n] = SKIPPED]
    /\ UNCHANGED <<graph, stacks, cancel, action_log, set_outputs_calls>>

\* after cancellation a node that was not started is interrupted
WalkInterrupt(n) ==
    /\ Ready(n)
    /\ ~FailedUpstream(n)
    /\ cancel
    /\ node_status' = [node_status EXCEPT ![n] = INTERRUPTED]
    /\ UNCHANGED <<graph, stacks, cancel, action_log, set_outputs_calls>>

\* the walker invokes _diff_stack for a released node; the action runs up
\* to its provider call
DiffStackEnter(n) ==
    /\ Released(n)
    /\ \E resolve_outcome \in ResolveOutcomes :
          LET result == diff_stack_start(cancel, stacks[n], resolve_outcome)
          IN  /\ action_log' = [action_log EXCEPT ![n] =
                     [invoked |-> TRUE, cancelled |-> cancel,
                      resolved |-> result.kind \in {"raise", "in flight"},
                      provider |-> IF result.kind = "in flight" THEN "called"
                                   ELSE "not called",
                      result |-> result]]
              /\ node_status' = [node_status EXCEPT ![n] = StepStatus(result)]
    /\ UNCHANGED <<graph, stacks, cancel, set_outputs_calls>>

\* provider.get_stack_changes returns or raises and _diff_stack ends
DiffStackReturn(n) ==
    /\ node_status[n] = SUBMITTED
    /\ action_log[n].result = InFlight
    /\ \E provider_outcome \in ProviderOutcomes :
          LET result == diff_stack_finish(provider_outcome)
          IN  /\ action_log' = [action_log EXCEPT ![n].provider = provider_outcome,
                                                   ![n].result = result]
              /\ set_outputs_calls' =
                     IF calls_set_outputs(provider_outcome)
                     THEN [set_outputs_calls EXCEPT ![n] = Append(@, n)]
                     ELSE set_outputs_calls
              /\ node_status' = [node_status EXCEPT ![n] = StepStatus(result)]
    /\ UNCHANGED <<graph, stacks, cancel>>

vars == <<diff_vars, hook_vars, rv_vars, bp_vars, walk_vars>>

DiffNext ==
    \/ DiffDictionaries /\ UNCHANGED <<hook_vars, rv_vars, bp_vars, walk_vars>>
    \/ DiffParameters /\ UNCHANGED <<hook_vars, rv_vars, bp_vars, walk_vars>>
    \/ FormatParamsDiff /\ UNCHANGED <<hook_vars, rv_vars, bp_vars, walk_vars>>

InitDiff == DiffInit /\ HooksIdle /\ ResolveIdle /\ BlueprintIdle /\ WalkIdle

SpecDiff == InitDiff /\ [][DiffNext]_vars

HooksNext ==
    \/ HandleHooksStart /\ UNCHANGED <<diff_vars, rv_vars, bp_vars, walk_vars>>
    \/ HandleHook /\ UNCHANGED <<diff_vars, rv_vars, bp_vars, walk_vars>>

InitHooks == HooksInit /\ DiffIdle /\ ResolveIdle /\ BlueprintIdle /\ WalkIdle

SpecHooks == InitHooks /\ [][HooksNext]_vars

ResolveNext == ResolveVariable /\ UNCHANGED <<diff_vars, hook_vars, bp_vars, walk_vars>>

InitResolve == ResolveInit /\ DiffIdle /\ HooksIdle /\ BlueprintIdle /\ WalkIdle

SpecResolve == InitResolve /\ [][ResolveNext]_vars

BlueprintNext ==
    \/ ResolveVariables /\ UNCHANGED <<diff_vars, hook_vars, rv_vars, walk_vars>>
    \/ GetVariables /\ UNCHANGED <<diff_vars, hook_vars, rv_vars, walk_vars>>
    \/ GetParameterValues /\ UNCHANGED <<diff_vars, hook_vars, rv_vars, walk_vars>>
    \/ GetCfnParameters /\ UNCHANGED <<diff_vars, hook_vars, rv_vars, walk_vars>>
    \/ GetRequiredParameterDefinitions /\ UNCHANGED <<diff_vars, hook_vars, rv_vars, walk_vars>>

InitBlueprint == BlueprintInit /\ DiffIdle /\ HooksIdle /\ ResolveIdle /\ WalkIdle

SpecBlueprint == InitBlueprint /\ [][BlueprintNext]_vars

WalkNext ==
    \/ (\E n \in Nodes : WalkSkip(n)) /\ UNCHANGED <<diff_vars, hook_vars, rv_vars, bp_vars>>
    \/ (\E n \in Nodes : WalkInterrupt(n)) /\ UNCHANGED <<diff_vars, hook_vars, rv_vars, bp_vars>>
    \/ (\E n \in Nodes : DiffStackEnter(n)) /\ UNCHANGED <<diff_vars, hook_vars, rv_vars, bp_vars>>
    \/ (\E n \in Nodes : DiffStackReturn(n)) /\ UNCHANGED <<diff_vars, hook_vars, rv_vars, bp_vars>>
    \/ Cancel /\ UNCHANGED <<diff_vars, hook_vars, rv_vars, bp_vars>>

InitWalk == WalkInit /\ DiffIdle /\ HooksIdle /\ ResolveIdle /\ BlueprintIdle

SpecWalk == InitWalk /\ [][WalkNext]_vars

-----------------------------------------------------------------------------
(* Properties of diff_dictionaries *)

DiffDone == diff_pc = "done"
OutputIdx == 1..Len(diff_output)
AllKeys == DOMAIN old_dict \cup DOMAIN new_dict

\* C1: the returned count equals the number of returned entries whose
\* status() is not UNMODIFIED.
C1_CountAgreesWithStatus ==
    DiffDone =>
        diff_changes = Cardinality({i \in OutputIdx : status(diff_output[i]) # UNMODIFIED})

\* C2: a key present only in the new mapping yields an ADDED entry and a key
\* present only in the old mapping yields a REMOVED entry, whatever the value.
C2_OnlyNewAddedOnlyOldRemoved ==
    DiffDone =>
        \A i \in OutputIdx :
            LET k == diff_output[i].key
            IN  /\ (k \in DOMAIN new_dict \ DOMAIN old_dict) => status(diff_output[i]) = ADDED
                /\ (k \in DOMAIN old_dict \ DOMAIN new_dict) => status(diff_output[i]) = REMOVED

\* C3: a key present in both mappings yields UNMODIFIED when the string forms
\* of the two values are equal and MODIFIED otherwise, never ADDED or REMOVED.
C3_CommonKeyByStringForm ==
    DiffDone =>
        \A i \in OutputIdx :
            LET k == diff_output[i].key
            IN  (k \in DOMAIN old_dict \cap DOMAIN new_dict) =>
                    status(diff_output[i]) =
                        IF PyStr(old_dict[k]) = PyStr(new_dict[k]) THEN UNMODIFIED ELSE MODIFIED

\* C4: the returned list has exactly one entry for every key of the union of
\* the two key sets and no other entry, in strictly ascending key order; for
\* two empty mappings it is the empty list with count 0.
C4_OneEntryPerKeySorted ==
    DiffDone =>
        /\ Len(diff_output) = Cardinality(AllKeys)
        /\ {diff_output[i].key : i \in OutputIdx} = AllKeys
        /\ \A i \in OutputIdx : i < Len(diff_output) => diff_output[i].key < diff_output[i + 1].key
        /\ (AllKeys = {}) => (diff_output = <<>> /\ diff_changes = 0)

\* two keys added by the same loop and one mapping non-empty: the list is sorted
C4_Witness ==
    /\ DiffDone
    /\ Cardinality(DOMAIN new_dict \ DOMAIN old_dict) >= 2
    /\ Len(diff_output) >= 2
    /\ diff_output[1].key < diff_output[2].key

-----------------------------------------------------------------------------
(* Properties of handle_hooks *)

LogIdx == 1..Len(hook_log)
HookOf(e) == hooks[e.idx]
HooksFinished == hooks_pc \in {"returned", "exit", "raised"}

\* the hook's method was called and returned a falsy value
ReturnedFalsy(e) == e.load = "ok" /\ e.call \in HookResults /\ ~Truthy(e.call)

\* the hook's method was called and returned a mapping
ReturnedMapping(e) == e.load = "ok" /\ e.call \in HookResults /\ IsMapping(e.call)

\* loading or calling the hook raised an exception of class Exception
RaisedException(e) == e.load # "ok" \/ e.call = Raises("Exception")

\* load_object_from_string was called for hook j
Processed(j) == \E m \in LogIdx : hook_log[m].idx = j

\* no hook processed so far raised anything, at load or when called
NothingRaised ==
    \A n \in LogIdx : hook_log[n].load = "ok" /\ hook_log[n].call \in HookResults

\* C5 as stated, for runs in which no hook raises: a required hook returning
\* a falsy value exits and is the last hook processed; after an optional hook
\* returned a falsy value every later enabled hook has been invoked once
\* handle_hooks is over.
C5_FalsyRequiredAbortsOptionalRunsAllLater ==
    NothingRaised =>
        \A n \in LogIdx :
            LET e == hook_log[n]
            IN  ReturnedFalsy(e) =>
                    IF HookOf(e).required
                    THEN hooks_pc = "exit" /\ n = Len(hook_log)
                    ELSE HooksFinished =>
                            \A j \in (e.idx + 1)..Len(hooks) : hooks[j].enabled => Processed(j)

\* C5 amended: a required hook returning a falsy value exits and is the last
\* hook processed; an optional hook returning a falsy value does not end
\* handle_hooks, and every later enabled hook is processed unless a hook
\* after it ended the run first.
C5_FalsyRequiredAbortsOptionalContinues ==
    \A n \in LogIdx :
        LET e == hook_log[n]
        IN  ReturnedFalsy(e) =>
                IF HookOf(e).required
                THEN hooks_pc = "exit" /\ n = Len(hook_log) /\ hook_i = e.idx
                ELSE /\ hook_i > e.idx
                     /\ (hooks_pc \in {"exit", "raised"}) => n < Len(hook_log)
                     /\ \A j \in (e.idx + 1)..Len(hooks) :
                            hooks[j].enabled =>
                                \/ Processed(j)
                                \/ hooks_pc = "loop" /\ hook_i <= j
                                \/ hooks_pc \in {"exit", "raised"} /\ hook_i < j

\* an optional hook returned a falsy value, the next hook was still invoked,
\* and a required hook returning a falsy value then ended the run
C5_Witness ==
    /\ hooks_pc = "exit"
    /\ Len(hook_log) >= 2
    /\ ReturnedFalsy(hook_log[1]) /\ ~HookOf(hook_log[1]).required
    /\ ReturnedFalsy(hook_log[Len(hook_log)]) /\ HookOf(hook_log[Len(hook_log)]).required
    /\ \E j \in 1..Len(hooks) : j > hook_log[Len(hook_log)].idx /\ hooks[j].enabled

\* C6: an exception raised while loading or calling an optional hook is
\* swallowed and handle_hooks goes on; one from a required hook propagates
\* and no later hook is processed.
C6_OptionalSwallowedRequiredPropagates ==
    \A n \in LogIdx :
        LET e == hook_log[n]
        IN  RaisedException(e) =>
                IF HookOf(e).required
                THEN hooks_pc = "raised" /\ n = Len(hook_log)
                ELSE hook_i > e.idx /\ (n = Len(hook_log) => hooks_pc \in {"loop", "returned"})

\* the entries after n that stored a result under data key k
LaterStores(n, k) ==
    {m \in LogIdx : m > n /\ HookOf(hook_log[m]).data_key = k
                     /\ ReturnedMapping(hook_log[m]) /\ Truthy(hook_log[m].call)}

\* C7 as stated: the mapping returned by the last enabled hook that returned
\* a mapping and has a data_key is what the context holds under that key.
C7_MappingStoredUnderDataKey ==
    \A n \in LogIdx :
        LET e == hook_log[n]
            k == HookOf(e).data_key
        IN  (ReturnedMapping(e) /\ k # NoDataKey /\ LaterStores(n, k) = {}) =>
                (k \in DOMAIN hook_data /\ hook_data[k] = e.call)

\* C7 amended: the non-empty mapping returned by the last enabled hook that
\* returned a non-empty mapping and has a data_key is what the context holds
\* under that key, whatever was stored there before.
C7_TruthyMappingStoredUnderDataKey ==
    \A n \in LogIdx :
        LET e == hook_log[n]
            k == HookOf(e).data_key
        IN  (ReturnedMapping(e) /\ Truthy(e.call) /\ k # NoDataKey /\ LaterStores(n, k) = {}) =>
                (k \in DOMAIN hook_data /\ hook_data[k] = e.call)

\* two optional hooks with the same data_key returned different mappings and
\* the context holds the second one
C7_Witness ==
    /\ Len(hook_log) >= 2
    /\ HookOf(hook_log[1]).data_key = "k1" /\ HookOf(hook_log[2]).data_key = "k1"
    /\ ~HookOf(hook_log[1]).required /\ ~HookOf(hook_log[2]).required
    /\ hook_log[1].load = "ok" /\ hook_log[1].call = Map1
    /\ hook_log[2].load = "ok" /\ hook_log[2].call = Map2
    /\ hook_data["k1"] = Map2

\* C8: no disabled hook is ever loaded or called, and the hooks processed
\* are processed in list order, each at most once.
C8_OnlyEnabledInOrderOnce ==
    /\ \A n \in LogIdx : HookOf(hook_log[n]).enabled
    /\ \A n, m \in LogIdx : n < m => hook_log[n].idx < hook_log[m].idx
    /\ \A n \in LogIdx : hook_log[n].idx <= hook_i

\* a disabled hook between two enabled hooks that were both called
C8_Witness ==
    /\ hooks_pc = "returned"
    /\ Len(hooks) >= 3
    /\ ~hooks[2].enabled
    /\ Len(hook_log) = 2
    /\ hook_log[1].idx = 1 /\ hook_log[1].load = "ok"
    /\ hook_log[2].idx = 3 /\ hook_log[2].load = "ok"

-----------------------------------------------------------------------------
(* Properties of resolve_variable *)

ResolveDone == rv_pc = "done"

\* the validator, if any, hands its argument back
ValidatorReturnsArgument == var_def.validator \in {"<lambda>", "accept"}

\* the value is of the declared type or of a subclass of it
OfTypeOrSubtype(v, t) == v.ty = t \/ (v.ty = "bool" /\ t = "int")

\* the error of the plain type check, naming the expected and the actual type
IsTypeError(r, t, v) ==
    r.kind = "raise" /\ r.exc = "ValueError" /\ r.expected = t /\ r.actual = v.ty

HasCheckedValue ==
    /\ var_def.type # NoType
    /\ provided_or_default(var_def, provided_variable).kind = "return"
    /\ var_def.validator \notin {"reject", "nameless_reject"}
CheckedValue ==
    apply_validator(var_def.validator, provided_or_default(var_def, provided_variable).value).value

\* C10 as stated: for a plain declared type resolve_variable returns only a
\* value whose runtime type is exactly the declared type, and a value of any
\* other type raises the type error.
C10_ExactTypeOrTypeError ==
    (ResolveDone /\ var_def.type \in PlainTypes /\ HasCheckedValue) =>
        IF CheckedValue.ty = var_def.type
        THEN ~IsTypeError(rv_result, var_def.type, CheckedValue)
        ELSE IsTypeError(rv_result, var_def.type, CheckedValue)

\* C10 amended: for a plain declared type a value that is an instance of the
\* declared type (the type itself or a subclass, a bool for int) passes the
\* type check and is what resolve_variable returns if it returns; any other
\* value raises the error naming the expected and the actual type.
C10_InstanceOrTypeError ==
    (ResolveDone /\ var_def.type \in PlainTypes /\ HasCheckedValue) =>
        IF OfTypeOrSubtype(CheckedValue, var_def.type)
        THEN /\ ~IsTypeError(rv_result, var_def.type, CheckedValue)
             /\ rv_result.kind = "return" => rv_result.value = CheckedValue
             /\ validate_allowed_values(var_def.allowed_values, CheckedValue) =>
                    rv_result = Return(CheckedValue)
        ELSE IsTypeError(rv_result, var_def.type, CheckedValue)

\* a boolean provided for a declared int is returned
C10_Witness ==
    /\ ResolveDone
    /\ var_def.type = "int"
    /\ provided_variable.given /\ provided_variable.resolved /\ provided_variable.value = True
    /\ rv_result = Return(True)

\* the value is equal (==) to one of the allowed values
MemberOf(v, allowed) == \E a \in allowed : a = v \/ {a, v} = {Int1, True}

\* C11: with allowed_values enumerated, a value that is not a CFNParameter is
\* returned only if it is a member of allowed_values, a value that passed the
\* type check and is not a member raises an error, and a CFNParameter is
\* returned whatever allowed_values holds.
C11_AllowedValuesEnforced ==
    (ResolveDone /\ var_def.allowed_values # {}) =>
        /\ (rv_result.kind = "return" /\ rv_result.value.ty # "CFNParameter") =>
                MemberOf(rv_result.value, var_def.allowed_values)
        /\ (/\ var_def.type \in PlainTypes /\ HasCheckedValue
            /\ OfTypeOrSubtype(CheckedValue, var_def.type)
            /\ ~MemberOf(CheckedValue, var_def.allowed_values)) =>
                (rv_result.kind = "raise" /\ rv_result.exc = "ValueError")
        /\ (/\ var_def.type = "CFNType" /\ HasCheckedValue
            /\ CFNParameter(CheckedValue).kind = "return") =>
                rv_result = CFNParameter(CheckedValue)

\* "c" provided for a str variable that allows "a" and "b" is refused
C11_Witness ==
    /\ ResolveDone
    /\ var_def.type = "str" /\ var_def.allowed_values = {StrA, StrB}
    /\ var_def.validator = "<lambda>"
    /\ provided_variable.given /\ provided_variable.resolved /\ provided_variable.value = StrC
    /\ rv_result.kind = "raise" /\ rv_result.exc = "ValueError"

\* the validator raises when it is called
ValidatorRaises == var_def.validator \in {"reject", "nameless_reject"}

\* the value handed to the validator, when resolve_variable gets there
HasLookedUpValue ==
    /\ var_def.type # NoType
    /\ provided_or_default(var_def, provided_variable).kind = "return"
LookedUpValue == provided_or_default(var_def, provided_variable).value

\* C12: when the validator raises, or create raises, resolve_variable raises
\* a ValidatorError that carries the validator identity, the value handed to
\* the failing step and the original exception; nothing else escapes and
\* nothing is returned.
C12_ValidatorErrorWraps ==
    (ResolveDone /\ HasLookedUpValue) =>
        /\ ValidatorRaises =>
                rv_result = ValidatorError(var_def.validator, LookedUpValue, "Exception")
        /\ (/\ HasCheckedValue /\ var_def.type = "TroposphereType"
            /\ rv_result.kind = "raise" /\ rv_result.exc # "ValueError") =>
                rv_result = ValidatorError("resource_name.create", CheckedValue, "Exception")

-----------------------------------------------------------------------------
(* Properties of Blueprint *)

VariableGetters == {"get_variables", "get_parameter_values", "get_cfn_parameters"}

\* C13: get_variables, get_parameter_values and get_cfn_parameters raise
\* UnresolvedVariables when called before any resolve_variables call or
\* after one that raised, and return a mapping only after a resolve_variables
\* call that went through all defined variables.
C13_GettersFailUntilResolved ==
    bp_call.op \in VariableGetters =>
        IF bp_call.state = "complete"
        THEN bp_call.kind = "return"
        ELSE bp_call.kind = "raise" /\ bp_call.exc = "UnresolvedVariables"

\* C14: get_required_parameter_definitions returns exactly the CFNType
\* variables whose definition has no default.
C14_RequiredAreThoseWithoutDefault ==
    bp_call.op = "get_required_parameter_definitions" =>
        bp_call.names = {name \in DOMAIN defined_variables :
                            /\ defined_variables[name].type = "CFNType"
                            /\ defined_variables[name].default = Missing}

-----------------------------------------------------------------------------
(* Properties of the diff action and the walk *)

\* C15: a _diff_stack call entered with the cancellation flag set returns
\* INTERRUPTED without resolving the stack, without calling the provider and
\* without writing the stack's outputs, whatever the stack's enabled and
\* locked flags are.
C15_CancelCheckedFirst ==
    \A n \in DOMAIN action_log :
        (action_log[n].invoked /\ action_log[n].cancelled) =>
            /\ action_log[n].result = Returned(INTERRUPTED)
            /\ ~action_log[n].resolved
            /\ action_log[n].provider = "not called"
            /\ set_outputs_calls[n] = <<>>
            /\ node_status[n] = INTERRUPTED

C15_Witness ==
    \E n \in DOMAIN action_log :
        /\ action_log[n].invoked /\ action_log[n].cancelled
        /\ ~stacks[n].enabled /\ stacks[n].locked
        /\ action_log[n].result = Returned(INTERRUPTED)

\* C16: when get_stack_changes raises StackDidNotChange, _diff_stack returns
\* COMPLETE, nothing propagates and the node is not FAILED; any other
\* exception of the provider propagates out of _diff_stack.
C16_StackDidNotChangeIsSuccess ==
    \A n \in DOMAIN action_log :
        /\ action_log[n].provider = "StackDidNotChange" =>
              /\ action_log[n].result = Returned(COMPLETE)
              /\ node_status[n] = COMPLETE
        /\ action_log[n].provider \in ProviderOutcomes \ {"outputs", "StackDidNotChange"} =>
              action_log[n].result = Raised(action_log[n].provider)

C16_Witness ==
    \E n, m \in DOMAIN action_log :
        /\ action_log[n].provider = "StackDidNotChange"
        /\ node_status[n] = COMPLETE
        /\ action_log[m].provider = "ClientError"
        /\ action_log[m].result.kind = "raise"

\* C17: every diff stack action that ended COMPLETE has written its stack's
\* outputs exactly once, and the outputs of a stack are written only by the
\* action run for that stack.
C17_CompleteWroteOutputsOnce ==
    \A n \in DOMAIN action_log :
        /\ action_log[n].result = Returned(COMPLETE) => set_outputs_calls[n] = <<n>>
        /\ \A i \in DOMAIN set_outputs_calls[n] : set_outputs_calls[n][i] = n

RunFinished == \A n \in DOMAIN node_status : node_status[n] \in Terminal

\* some step of the walk other than cancellation can be taken
WalkCanStep ==
    \E n \in Nodes :
        \/ ENABLED WalkSkip(n)
        \/ ENABLED WalkInterrupt(n)
        \/ ENABLED DiffStackEnter(n)
        \/ ENABLED DiffStackReturn(n)

\* C19: when a node is FAILED, none of its transitive dependents is
\* invoked and each ends SKIPPED; a node with no failed upstream is never
\* SKIPPED, keeps the status its own action produced, and the walk goes on
\* until every node is terminal.
C19_FailedSkipsDependents ==
    /\ \A f \in DOMAIN node_status : node_status[f] = FAILED =>
          \A n \in Dependents(graph, f) :
              /\ ~action_log[n].invoked
              /\ node_status[n] \in {PENDING, SKIPPED}
              /\ RunFinished => node_status[n] = SKIPPED
    /\ \A n \in DOMAIN node_status :
          (\A f \in Upstream(graph, n) : node_status[f] # FAILED) =>
              /\ node_status[n] # SKIPPED
              /\ action_log[n].invoked => node_status[n] = StepStatus(action_log[n].result)
    /\ (DOMAIN node_status # {} /\ ~RunFinished) => WalkCanStep

C19_Witness ==
    /\ RunFinished
    /\ \E f, n, m \in DOMAIN node_status :
          /\ node_status[f] = FAILED /\ action_log[f].invoked
          /\ n \in graph[m] /\ f \in graph[n] /\ f \notin graph[m]
          /\ node_status[n] = SKIPPED /\ node_status[m] = SKIPPED
          /\ ~action_log[m].invoked

-----------------------------------------------------------------------------
(* Properties of the rendering and of diff_parameters *)

DiffFormatted == diff_pc \in {"formatted output", "formatted result"}

\* the list that was formatted
FormattedList == IF diff_pc = "formatted output" THEN diff_output ELSE diff_result

\* the lines the rendering rules give for one entry
RenderedEntry(dv) ==
    CASE status(dv) = UNMODIFIED -> <<<<" ", dv.key, " = ", dv.old_value.s>>>>
      [] status(dv) = ADDED -> <<<<"+", dv.key, " = ", dv.new_value.s>>>>
      [] status(dv) = REMOVED -> <<<<"-", dv.key, " = ", dv.old_value.s>>>>
      [] status(dv) = MODIFIED -> << <<"-", dv.key, " = ", dv.old_value.s>>,
                                     <<"+", dv.key, " = ", dv.new_value.s>> >>

\* the number of lines the entries before entry i take
RECURSIVE LinesBefore(_, _)
LinesBefore(list, i) ==
    IF i = 1 THEN 0 ELSE LinesBefore(list, i - 1) + Len(RenderedEntry(list[i - 1]))

\* C18: an UNMODIFIED entry is rendered as one ' ' line, an ADDED entry as
\* one '+' line with the new value, a REMOVED entry as one '-' line with the
\* old value, a MODIFIED entry as a '-' line with the old value followed by a
\* '+' line with the new value; the text of format_params_diff is the three
\* header lines followed by the lines of the entries in list order.
C18_RenderingByStatus ==
    DiffFormatted =>
        /\ SubSeq(diff_text, 1, 3) =
               <<<<"--- Old Parameters">>, <<"+++ New Parameters">>, <<"******************">>>>
        /\ \A i \in DOMAIN FormattedList :
              LET first == 3 + LinesBefore(FormattedList, i) + 1
                  lines == RenderedEntry(FormattedList[i])
              IN  SubSeq(diff_text, first, first + Len(lines) - 1) = lines
        /\ FormattedList # <<>> =>
              Len(diff_text) = 3 + LinesBefore(FormattedList, Len(FormattedList) + 1)

C18_Witness ==
    /\ DiffFormatted
    /\ Len(FormattedList) = 2
    /\ status(FormattedList[1]) = MODIFIED
    /\ status(FormattedList[2]) = ADDED
    /\ Len(diff_text) = 6

DiffReturned == diff_pc = "returned"

HasChange(list) == \E i \in DOMAIN list : status(list[i]) # UNMODIFIED

\* C20: diff_parameters returns the empty list exactly when no entry is
\* ADDED, REMOVED or MODIFIED; otherwise it returns the complete sorted
\* list, which then holds at least one entry that is not UNMODIFIED.
C20_EmptyExactlyWhenNoChange ==
    DiffReturned =>
        /\ diff_result = <<>> <=> ~HasChange(diff_output)
        /\ HasChange(diff_output) => diff_result = diff_output
        /\ diff_result # <<>> => HasChange(diff_result)

-----------------------------------------------------------------------------
(* Frame of handle_hooks *)

\* this step is the iteration of an enabled hook with a data_key whose method
\* loaded, returned a truthy mapping, and whose result is put under data_key
StoresResult ==
    /\ hooks_pc = "loop"
    /\ hooks[hook_i].enabled
    /\ hooks[hook_i].data_key # NoDataKey
    /\ Len(hook_log') = Len(hook_log) + 1
    /\ LET e == hook_log'[Len(hook_log')]
       IN  /\ e.idx = hook_i
           /\ e.load = "ok"
           /\ e.call \in HookResults
           /\ Truthy(e.call) /\ IsMapping(e.call)
           /\ hook_data' = (hooks[hook_i].data_key :> e.call) @@ hook_data

\* C21: a step of handle_hooks changes the context's hook data only for an
\* enabled hook with a data_key whose method loaded, ran without exception
\* and returned a truthy mapping; every other step leaves the hook data
\* unchanged, and with an empty or absent hook list nothing is loaded or
\* called and the hook data stay as they were.
C21_HookDataFrame ==
    [][/\ hook_data' # hook_data => StoresResult
       /\ (hooks_none \/ hooks = <<>>) => (hook_data' = hook_data /\ hook_log' = hook_log)]_vars

C21_Witness ==
    /\ hooks_pc = "returned"
    /\ Len(hooks) = 3 /\ Len(hook_log) = 2
    /\ ~hooks[1].enabled /\ hooks[1].data_key = "k2"
    /\ hooks[2].data_key = "k2" /\ hook_log[1].idx = 2 /\ hook_log[1].call = True
    /\ hooks[3].data_key = NoDataKey /\ hook_log[2].idx = 3 /\ hook_log[2].call = Map1
    /\ hook_data = <<>>

====
